---- MODULE Spec2Model ----
(***************************************************************************)
(* Model of the guudboi commentary bot: the scheduler loop of              *)
(* src/core/bot.py, the content generator of src/clients/openai_client.py  *)
(* and the publisher of src/clients/x_client.py.                           *)
(*                                                                         *)
(* One action per blocking call of the loop (feed fetch, oracle call,      *)
(* platform create call, sleep); the code that runs between two blocking   *)
(* calls belongs to the action of the call before it.                      *)
(***************************************************************************)
EXTENDS Integers, Sequences, FiniteSets, TLC

(***************************************************************************)
(* Bounds of the model.                                                    *)
(***************************************************************************)
\* candidate identifiers are 1..NumIds
NumIds == 2
\* longest batch the feed returns
MaxBatch == 2
\* most lines the oracle writes in a thread section
MaxThread == 2

(***************************************************************************)
(* Program constants.                                                      *)
(***************************************************************************)
\* generate_reply / generate_quote_tweet: max_attempts=3
MaxAttempts == 3
\* post_quote_tweet / post_reply: max_retries=4
MaxRetries == 4
\* len(response_text) > 280
Limit == 280

Ids == 1 .. NumIds
\* Python's None where an identifier is expected
NoId == 0

(***************************************************************************)
(* Texts.  A text is a sequence of tokens; a token stands for a run of n   *)
(* characters: "ch" a run of non-blank characters, "sp" one blank, "nl"    *)
(* one newline, and one token per section marker of the oracle's answer    *)
(* format, with the marker's length.                                       *)
(***************************************************************************)
Ch(n) == [k |-> "ch", n |-> n]
SP == [k |-> "sp", n |-> 1]
NL == [k |-> "nl", n |-> 1]
MarkAnalysis == [k |-> "### Analysis ###", n |-> 16]
MarkReply == [k |-> "### Reply ###", n |-> 13]
MarkTweet == [k |-> "### Tweet ###", n |-> 13]
MarkThread == [k |-> "### Thread ###", n |-> 14]

\* len(text)
TextLen(s) ==
    LET sum[k \in 0 .. Len(s)] == IF k = 0 THEN 0 ELSE sum[k - 1] + s[k].n
    IN  sum[Len(s)]

IsBlank(t) == t.k \in {"sp", "nl"}

\* str.strip()
Strip(s) ==
    LET keep == {i \in 1 .. Len(s) : ~IsBlank(s[i])}
    IN  IF keep = {} THEN <<>>
        ELSE LET a == CHOOSE i \in keep : \A j \in keep : i <= j
                 b == CHOOSE i \in keep : \A j \in keep : j <= i
             IN  SubSeq(s, a, b)

\* str.split(sep): the pieces between the occurrences of sep
SplitOn(s, sep) ==
    LET hits == {i \in 1 .. Len(s) : s[i] = sep}
        n == Cardinality(hits)
        \* the j-th occurrence, 0 before the first, Len(s) + 1 after the last
        at(j) == IF j = 0 THEN 0
                 ELSE IF j = n + 1 THEN Len(s) + 1
                 ELSE CHOOSE i \in hits : Cardinality({h \in hits : h <= i}) = j
    IN  [j \in 1 .. n + 1 |-> SubSeq(s, at(j - 1) + 1, at(j) - 1)]

\* [tweet.strip() for tweet in thread_section.split("\n") if tweet.strip()]
ThreadList(section) ==
    LET lines == SplitOn(section, NL)
        stripped == [i \in 1 .. Len(lines) |-> Strip(lines[i])]
    IN  SelectSeq(stripped, LAMBDA l : l # <<>>)

(***************************************************************************)
(* The answers of the generative oracle that the bot parses by hand.       *)
(***************************************************************************)
\* str.lower() on the words the oracle answers with
Lower(s) ==
    CASE s \in {"None", "NONE", "none"} -> "none"
      [] s \in {"Quote Tweet", "QUOTE TWEET", "quote tweet"} -> "quote tweet"
      [] s \in {"Reply", "REPLY", "reply"} -> "reply"
      [] OTHER -> s

\* str(tweet["tweet_id"])
IdStr(id) == ToString(id)

\* an optional string: Python's None, or the string s
None == [some |-> FALSE, s |-> ""]
Some(s) == [some |-> TRUE, s |-> s]
\* Python truthiness of an optional string
Truthy(x) == x.some /\ x.s # ""

\* An answer with an analysis section and a response section: the call may
\* raise, either marker may be missing, body is the stripped response section
\* (there is none without its marker).
SectionAnswers(bodies) ==
    [raises : {TRUE}, hasAnalysis : {TRUE}, hasResponse : {TRUE}, body : {""}]
    \cup [raises : {FALSE}, hasAnalysis : BOOLEAN, hasResponse : {FALSE}, body : {""}]
    \cup [raises : {FALSE}, hasAnalysis : BOOLEAN, hasResponse : {TRUE}, body : bodies]

\* select_tweet and identify_research_topic: the response section, None when
\* it reads "none" in any case, None when the call raises or a marker is
\* missing (content.split(marker)[1] raises IndexError, caught)
ResponseSection(o) ==
    IF o.raises \/ ~o.hasAnalysis \/ ~o.hasResponse THEN None
    ELSE IF Lower(o.body) # "none" THEN Some(o.body) ELSE None

(***************************************************************************)
(* Feed fetch (XClient.fetch_tweets).                                      *)
(***************************************************************************)
\* a tweet of the list: ref is the tweet it references (NoId: none), ref_ok
\* whether get_tweet returned the referenced tweet
RawTweets ==
    {t \in [id : Ids, ref : Ids \cup {NoId}, ref_ok : BOOLEAN] :
        /\ t.ref # t.id
        /\ (t.ref = NoId => ~t.ref_ok)}

\* lines 69-70: the post a tweet_info is built from, by identifier: the
\* referenced post when the lookup returned it, else the fetched post
ChosenTweet(t) == IF t.ref # NoId /\ t.ref_ok THEN t.ref ELSE t.id

\* a tweet_info that is always built from the fetched post
TweetInfoUnresolved(t) ==
    [tweet_id |-> t.id, original_tweet_id |-> t.id, text |-> t.id,
     author_id |-> t.id, engagement_metrics |-> t.id]

\* the tweet_info of one fetched tweet; text, author_id and
\* engagement_metrics hold the identifier of the post they are read from
TweetInfo(t) ==
    [tweet_id |-> ChosenTweet(t),
     original_tweet_id |-> t.id,
     text |-> ChosenTweet(t),
     author_id |-> ChosenTweet(t),
     engagement_metrics |-> ChosenTweet(t)]

NoTweet == [tweet_id |-> NoId, original_tweet_id |-> NoId, text |-> NoId,
            author_id |-> NoId, engagement_metrics |-> NoId]

\* the sequences over S of length at most n
SeqsUpTo(S, n) == UNION {[1 .. k -> S] : k \in 0 .. n}

\* what get_list_tweets does: raise a TweepyException, raise anything else,
\* or return the tweets in data
FeedOutcomes ==
    [kind : {"tweepy_error", "other_error"}, data : {<<>>}]
    \cup [kind : {"ok"}, data : SeqsUpTo(RawTweets, MaxBatch)]

FetchTweets(r) ==
    IF r.kind = "ok" THEN [i \in 1 .. Len(r.data) |-> TweetInfo(r.data[i])] ELSE <<>>

(***************************************************************************)
(* process_fetched_tweets                                                  *)
(***************************************************************************)
\* a filter that looks up the identifier of the fetched tweet, not that of
\* the tweet it resolved to
FilterByOriginal(tweets, store) ==
    SelectSeq(tweets, LAMBDA t : t.original_tweet_id \notin store)

\* no filter at all
FilterNothing(tweets, store) == tweets

\* the filter with its test inverted
FilterSeen(tweets, store) ==
    SelectSeq(tweets, LAMBDA t : t.tweet_id \in store)

\* [tweet for tweet in fetched_tweets if tweet["tweet_id"] not in processed_tweet_ids]
FilterUnseen(tweets, store) ==
    SelectSeq(tweets, LAMBDA t : t.tweet_id \notin store)

SelectBodies == {"", "none", "None", "x"} \cup {IdStr(i) : i \in 1 .. NumIds + 1}

\* a search that falls back on the first of the pool
LocateOrFirst(pool, sel) ==
    LET hits == {i \in 1 .. Len(pool) : IdStr(pool[i].tweet_id) = sel.s}
    IN  IF hits = {} THEN pool[1]
        ELSE pool[CHOOSE i \in hits : \A j \in hits : i <= j]

\* next((tweet for tweet in unprocessed_tweets if str(tweet["tweet_id"]) == selected_tweet_id), None)
LocateSelected(pool, sel) ==
    LET hits == {i \in 1 .. Len(pool) : IdStr(pool[i].tweet_id) = sel.s}
    IN  IF hits = {} THEN NoTweet
        ELSE pool[CHOOSE i \in hits : \A j \in hits : i <= j]

(***************************************************************************)
(* handle_selected_tweet: enrichment and the planner                       *)
(***************************************************************************)
TopicBodies == {"", "none", "topic"}
\* PerplexityClient.research_topic: the stripped summary, None when it raises
ResearchOutcomes == {None, Some(""), Some("summary")}

Placeholder == "No additional insights available."

\* a context that takes the research summary as it comes
ResearchSummaryRaw(topic, research) ==
    LET summary == IF Truthy(topic) THEN research ELSE None
    IN  summary.s

\* research_summary = research_topic(topic) if research_topic else None
\* context["research_summary"] = research_summary or "No additional insights available."
ResearchSummary(topic, research) ==
    LET summary == IF Truthy(topic) THEN research ELSE None
    IN  IF Truthy(summary) THEN summary.s ELSE Placeholder

\* the planner's answer: the call may raise, the decision marker may be
\* missing, body is the stripped text after the marker
DecideAnswers ==
    [raises : {TRUE}, hasDecision : {TRUE}, body : {""}]
    \cup [raises : {FALSE}, hasDecision : BOOLEAN,
          body : {"Quote Tweet", "quote tweet", "QUOTE TWEET", "Reply", "reply",
                  "Quote", "\"Quote Tweet\"", ""}]

\* a planner that defaults to a quote when the answer cannot be read
DecideDefaultQuote(o) ==
    IF o.raises \/ ~o.hasDecision THEN TRUE
    ELSE Lower(o.body) = "quote tweet"

\* decide_quote_or_reply
DecideQuoteOrReply(o) ==
    IF o.raises \/ ~o.hasDecision THEN FALSE
    ELSE Lower(o.body) = "quote tweet"

(***************************************************************************)
(* The content generator (generate_reply, generate_quote_tweet)            *)
(***************************************************************************)
\* primary texts the oracle may write
MainTexts ==
    {<<>>,
     <<Ch(Limit)>>,
     <<Ch(Limit + 1)>>,
     <<SP, Ch(Limit - 60), SP>>,
     <<Ch(Limit \div 2), SP, Ch(Limit \div 2)>>}

\* lines the oracle may write in a thread section
LineTexts == {<<>>, <<Ch(Limit)>>, <<Ch(Limit + 1)>>, <<SP, Ch(Limit - 180)>>}

\* "\n".join(lines)
JoinLines(lines) ==
    LET joined[k \in 0 .. Len(lines)] ==
            IF k = 0 THEN <<>>
            ELSE IF k = 1 THEN lines[1]
            ELSE joined[k - 1] \o <<NL>> \o lines[k]
    IN  joined[Len(lines)]

Section(present, mark, body) ==
    IF present THEN <<mark, NL>> \o body \o <<NL>> ELSE body \o <<NL>>

\* the oracle's answer to the reply prompt
ReplyContent(missing, text) ==
    Section(missing # "analysis", MarkAnalysis, <<Ch(40)>>)
    \o Section(missing # "reply", MarkReply, text)

\* the oracle's answer to the quote prompt
QuoteContent(missing, text, lines) ==
    Section(missing # "analysis", MarkAnalysis, <<Ch(40)>>)
    \o Section(missing # "tweet", MarkTweet, text)
    \o Section(missing # "thread", MarkThread, JoinLines(lines))

\* the call raises, the answer lacks a marker, or it is complete
ReplyOracle ==
    {[raises |-> TRUE, content |-> <<>>]}
    \cup {[raises |-> FALSE, content |-> ReplyContent(m, <<Ch(Limit)>>)] :
            m \in {"analysis", "reply"}}
    \cup {[raises |-> FALSE, content |-> ReplyContent("none", t)] : t \in MainTexts}

\* the call raises, the answer lacks a marker, or it is complete
QuoteOracle ==
    {[raises |-> TRUE, content |-> <<>>]}
    \cup {[raises |-> FALSE, content |-> QuoteContent(m, <<Ch(Limit)>>, <<<<Ch(Limit)>>>>)] :
            m \in {"analysis", "tweet", "thread"}}
    \cup {[raises |-> FALSE, content |-> QuoteContent("none", t, l)] :
            t \in MainTexts, l \in SeqsUpTo(LineTexts, MaxThread)}

\* content.split(mark)[1] raises IndexError when the marker is absent
HasSection(content, mark) == Len(SplitOn(content, mark)) >= 2

\* the length test off by one
TooLongLenient(text) == TextLen(text) > Limit + 1

\* len(text) > 280
TooLong(text) == TextLen(text) > Limit

\* lines 247-253: the reply text of an answer
ParseReply(content) ==
    LET c == Strip(content)
    IN  IF ~HasSection(c, MarkAnalysis) \/ ~HasSection(c, MarkReply)
        THEN [ok |-> FALSE, text |-> <<>>]
        ELSE [ok |-> TRUE, text |-> Strip(SplitOn(c, MarkReply)[2])]

\* lines 330-340: the primary text and the thread list of an answer
ParseQuote(content) ==
    LET c == Strip(content)
    IN  IF \/ ~HasSection(c, MarkAnalysis)
           \/ ~HasSection(c, MarkTweet)
           \/ ~HasSection(c, MarkThread)
        THEN [ok |-> FALSE, text |-> <<>>, thread |-> <<>>]
        ELSE [ok |-> TRUE,
              text |-> Strip(SplitOn(SplitOn(c, MarkTweet)[2], MarkThread)[1]),
              thread |-> ThreadList(Strip(SplitOn(c, MarkThread)[2]))]

\* one pass of the loop of generate_reply: "ok" returns the text, "too_long"
\* and "error" consume the attempt
ReplyAttempt(o) ==
    IF o.raises THEN [status |-> "error", text |-> <<>>]
    ELSE LET p == ParseReply(o.content)
         IN  IF ~p.ok THEN [status |-> "error", text |-> <<>>]
             ELSE IF TooLong(p.text) THEN [status |-> "too_long", text |-> <<>>]
             ELSE [status |-> "ok", text |-> p.text]

\* one pass of the loop of generate_quote_tweet
QuoteAttempt(o) ==
    IF o.raises THEN [status |-> "error", text |-> <<>>, thread |-> <<>>]
    ELSE LET p == ParseQuote(o.content)
         IN  IF ~p.ok THEN [status |-> "error", text |-> <<>>, thread |-> <<>>]
             ELSE IF TooLong(p.text)
                  THEN [status |-> "too_long", text |-> <<>>, thread |-> <<>>]
             ELSE IF \E i \in 1 .. Len(p.thread) : TooLong(p.thread[i])
                  THEN [status |-> "thread_too_long", text |-> <<>>, thread |-> <<>>]
             ELSE [status |-> "ok", text |-> p.text, thread |-> p.thread]

\* what one pass of the loop of generate_reply can come to
ReplyAttempts == {ReplyAttempt(o) : o \in ReplyOracle}

\* what one pass of the loop of generate_quote_tweet can come to
QuoteAttempts == {QuoteAttempt(o) : o \in QuoteOracle}

(***************************************************************************)
(* The publisher (XClient.post_reply, XClient.post_quote_tweet)            *)
(***************************************************************************)
\* create_tweet returns ("ok"); raises ConnectionError or a TweepyException
\* for a failure that may pass, a server error among them ("transient");
\* raises a TweepyException for a request the platform refuses, such as
\* tweepy.Forbidden for a duplicate ("rejected"); or raises anything else
\* ("other")
CreateOutcomes == {"ok", "transient", "rejected", "other"}

\* except (ConnectionError, tweepy.TweepyException): every TweepyException,
\* whatever the platform reported
Caught(r) == r \in {"transient", "rejected"}

\* a helper that goes on counting where the unit before it stopped
RangeStartCarried(previous) == previous

\* for attempt in range(retries): each call of the helper counts from 0
RangeStart(previous) == 0

NoPost == [tweet_id |-> NoId, text |-> <<>>]

\* the identifier the platform gives the post created for unit u of a publish
\* operation (0: the primary post or the reply, k: thread segment k): the
\* platform's identifiers are distinct, and distinct from the candidates'
PostId(u) == NumIds + 1 + u

\* lines 137-143 and 193-199: the PostResult of a create call that returned
PostResult(u, text) == [tweet_id |-> PostId(u), text |-> text]

NoCall == [kind |-> "none", target |-> NoId, text |-> <<>>, unit |-> 0, result |-> "none"]

\* post_tweet_with_retry lines 129-136: a reply to in_reply_to when it is
\* given, else a quote of quote_tweet_id
HelperCall(text, in_reply_to, quote_tweet_id) ==
    IF in_reply_to # NoId
    THEN [kind |-> "reply", target |-> in_reply_to, text |-> text]
    ELSE [kind |-> "quote", target |-> quote_tweet_id, text |-> text]

\* post_reply lines 190-192
ReplyCall(text, in_reply_to) == [kind |-> "reply", target |-> in_reply_to, text |-> text]

\* a retry loop that makes one pass too many
LoopContinuesOneMore(a) == a < MaxRetries

\* for attempt in range(max_retries): another pass follows pass `a` (0-based)
LoopContinues(a) == a + 1 < MaxRetries

\* if attempt < retries - 1: time.sleep(delay)
DelayAfter(a) == a < MaxRetries - 1

\* an anchor that follows every segment, posted or not
NextAnchorAlways(anchor, thread_tweet) == thread_tweet.tweet_id

\* lines 169-172: the chain anchor after a segment returned thread_tweet
NextAnchor(anchor, thread_tweet) ==
    IF thread_tweet # NoPost THEN thread_tweet.tweet_id ELSE anchor

\* a list that takes the newest post first
NextThreadTweetsFirst(tweets, thread_tweet) ==
    IF thread_tweet # NoPost THEN <<thread_tweet>> \o tweets ELSE tweets

\* lines 169-170: thread_tweets after a segment returned thread_tweet
NextThreadTweets(tweets, thread_tweet) ==
    IF thread_tweet # NoPost THEN Append(tweets, thread_tweet) ELSE tweets

\* a publisher that gives up on the first post that failed
AnyFailed(u, post) == post = NoPost

\* a publisher that goes on to the thread whatever became of the primary post
PrimaryFailedIgnored(u, post) == FALSE

\* lines 157-159: if not main_tweet: return None
PrimaryFailed(u, post) == u = 0 /\ post = NoPost

\* a scheduler that keeps only the latest candidate
MarkProcessedOnly(store, post_ok, id) == IF post_ok THEN {id} ELSE store

\* a scheduler that marks the candidate whatever the publisher returned
MarkProcessedAlways(store, post_ok, id) == store \cup {id}

\* bot.py lines 92-94: if post_result: processed_tweet_ids.add(tweet_id)
MarkProcessed(store, post_ok, id) == IF post_ok THEN store \cup {id} ELSE store

(***************************************************************************)
(* The sleep between two cycles (main_cycle lines 128-133)                 *)
(***************************************************************************)
\* values of config.settings.CYCLE_LENGTH, in seconds
BaseIntervals == {0, 15, 100}

\* random.uniform(-0.10, 0.10): both ends, the middle and a value between,
\* as num / den
Variances == {[num |-> k, den |-> 100] : k \in {-10, -5, 0, 5, 10}}

\* a conversion that rounds down
IntFloor(num, den) == num \div den

\* int(num / den): the fraction is dropped, towards zero
IntOf(num, den) == IF num >= 0 THEN num \div den ELSE -((-num) \div den)

\* cycle_time = CYCLE_LENGTH + int(CYCLE_LENGTH * variance)
CycleTime(base, variance) == base + IntOf(base * variance.num, variance.den)

(***************************************************************************)
(* State                                                                   *)
(***************************************************************************)
VARIABLES
    CYCLE_LENGTH,         \* config.settings: the base interval, set once
    processed_tweet_ids,  \* bot.py: the deduplication store
    pc,                   \* the blocking call main_cycle is about to make
    fetched_tweets,       \* main_cycle: the batch of this cycle
    unprocessed_tweets,   \* process_fetched_tweets: the selection pool
    selected_tweet,       \* the selected candidate, NoTweet for None
    research_summary,     \* context["research_summary"], "" while there is no context
    is_quote_tweet,       \* the planner's decision
    gen_attempt,          \* generate_*: attempt, 0 outside the generator
    response_text,        \* the generated primary text
    thread,               \* the generated thread
    unit,                 \* post_quote_tweet: 0 primary, k the k-th of thread
    attempt,              \* the retry loop's attempt
    main_tweet,           \* post_quote_tweet: main_tweet
    thread_tweets,        \* post_quote_tweet: thread_tweets
    in_reply_to_tweet_id, \* post_quote_tweet: the chain anchor
    \* history of the running cycle, read by the properties only
    cycleStartStore,      \* the store when the cycle's fetch began
    outcome,              \* how the cycle ended, "running" until then
    slept,                \* a sleep has completed since the last fetch
    tooLong,              \* the generator's attempts rejected for a primary text too long
    lastCall,             \* the last create call and its result
    unitCalls,            \* create calls made for the running unit
    unitDelays,           \* retry delays slept for the running unit
    lastUnit,             \* the unit whose retry loop ended in the last create call
    created,              \* the platform created the reply or primary post
    publishedOk,          \* candidates whose publish operation returned success
    calls,                \* the stages the cycle has entered, in order
    selectAnswer,         \* <<the selection oracle's answer>> while the pool is held
    decideAnswer,         \* <<the planner's answer>> right after the decision
    lastSleep,            \* <<cycle_time>> right after a sleep
    enrichment,           \* <<the query answer, the research outcome>> right after enrichment
    lastGen,              \* the last pass of the generator's loop, right after it
    totalCalls,           \* create calls made by the cycle's publish operation
    postedUnits,          \* the units of the publish operation the platform created
    primaryCreated,       \* candidates the platform ever created a reply or primary post for
    repeated,             \* this cycle created one for a candidate that had one
    response_data         \* the tweets get_list_tweets returned, while the batch is held

codeVars == <<CYCLE_LENGTH, processed_tweet_ids, pc, fetched_tweets, unprocessed_tweets,
              selected_tweet, research_summary, is_quote_tweet, gen_attempt,
              response_text, thread, unit, attempt, main_tweet, thread_tweets,
              in_reply_to_tweet_id>>
histVars == <<cycleStartStore, outcome, slept, tooLong, lastCall, unitCalls,
              unitDelays, lastUnit, created, publishedOk, calls, selectAnswer,
              decideAnswer, lastSleep, enrichment, lastGen, totalCalls,
              postedUnits, primaryCreated, repeated, response_data>>
vars == <<codeVars, histVars>>

NoUnit == [unit |-> 0, calls |-> 0, delays |-> 0, result |-> "none"]

NoGen == [calls |-> 0, status |-> "none", returned |-> FALSE]

Init ==
    /\ CYCLE_LENGTH \in BaseIntervals
    /\ processed_tweet_ids = {}
    /\ pc = "fetch"
    /\ fetched_tweets = <<>>
    /\ unprocessed_tweets = <<>>
    /\ selected_tweet = NoTweet
    /\ research_summary = ""
    /\ is_quote_tweet = FALSE
    /\ gen_attempt = 0
    /\ response_text = <<>>
    /\ thread = <<>>
    /\ unit = 0
    /\ attempt = 0
    /\ main_tweet = NoPost
    /\ thread_tweets = <<>>
    /\ in_reply_to_tweet_id = NoId
    /\ cycleStartStore = {}
    /\ outcome = "running"
    /\ slept = TRUE
    /\ tooLong = 0
    /\ lastCall = NoCall
    /\ unitCalls = 0
    /\ unitDelays = 0
    /\ lastUnit = NoUnit
    /\ created = FALSE
    /\ publishedOk = {}
    /\ calls = <<>>
    /\ selectAnswer = <<>>
    /\ decideAnswer = <<>>
    /\ lastSleep = <<>>
    /\ enrichment = <<>>
    /\ lastGen = NoGen
    /\ totalCalls = 0
    /\ postedUnits = {}
    /\ primaryCreated = {}
    /\ repeated = FALSE
    /\ response_data = <<>>

selectionVars == <<fetched_tweets, unprocessed_tweets, selected_tweet>>
contextVars == <<research_summary, is_quote_tweet>>
generatorVars == <<gen_attempt, response_text, thread, tooLong>>
publisherVars == <<unit, attempt, main_tweet, thread_tweets, in_reply_to_tweet_id,
                   lastCall, unitCalls, unitDelays, lastUnit, created>>

\* the cycle enters a stage: the stage is noted once
Entered(stage) == IF calls # <<>> /\ calls[Len(calls)] = stage THEN calls
                  ELSE Append(calls, stage)

\* the cycle's work is over (handle_selected_tweet returned, or the except
\* clause of main_cycle caught an exception): the sleep is next
EndCycle(how) ==
    /\ pc' = "sleep"
    /\ outcome' = how

\* a loop without the except clause: the exception leaves main_cycle
CatchExceptionNone ==
    /\ pc' = "crashed"
    /\ outcome' = "exception"

\* main_cycle lines 125-126: except Exception, then on to the sleep
CatchException == EndCycle("exception")

\* handle_selected_tweet lines 92-94 after the publish operation returned
\* post_result (post_ok: it is not None), then back to main_cycle
\* A variant that always hands the response to post_reply.
PublishAlwaysReply(is_quote) == "post_reply"

\* The publish operation handle_selected_tweet invokes for the planner's
\* decision: post_quote_tweet for a quote, post_reply otherwise.
PublishOperation(is_quote) == IF is_quote THEN "post_quote" ELSE "post_reply"

AfterPublish(post_ok) ==
    /\ processed_tweet_ids' =
           MarkProcessed(processed_tweet_ids, post_ok, selected_tweet.tweet_id)
    /\ publishedOk' =
           IF post_ok THEN publishedOk \cup {selected_tweet.tweet_id} ELSE publishedOk
    /\ calls' = IF post_ok THEN Append(calls, "mark") ELSE calls
    /\ EndCycle(IF post_ok THEN "published" ELSE "publish_failed")

(***************************************************************************)
(* main_cycle                                                              *)
(***************************************************************************)
\* lines 111-113: nothing fetched, `continue`: the next pass of `while True`
\* begins at once, the code after the try statement is not run
ContinueLoop ==
    /\ pc' = "fetch"
    /\ outcome' = "empty_fetch"

\* lines 100-113: the fetch.  fetch_tweets returns [] on a TweepyException
\* and lets any other exception through to main_cycle.
Fetch ==
    /\ pc = "fetch"
    /\ \E r \in FeedOutcomes :
        LET tweets == FetchTweets(r)
        IN  IF r.kind = "other_error"
            THEN CatchException /\ UNCHANGED <<fetched_tweets, response_data>>
            ELSE /\ fetched_tweets' = tweets
                 /\ response_data' = r.data
                 /\ IF tweets = <<>>
                    THEN ContinueLoop
                    ELSE pc' = "process" /\ outcome' = "running"
    /\ cycleStartStore' = processed_tweet_ids
    /\ slept' = FALSE
    /\ calls' = <<"fetch">>
    /\ lastSleep' = <<>>
    /\ UNCHANGED <<CYCLE_LENGTH, processed_tweet_ids, unprocessed_tweets,
                   selected_tweet, research_summary, is_quote_tweet,
                   gen_attempt, response_text, thread, unit, attempt,
                   main_tweet, thread_tweets, in_reply_to_tweet_id, tooLong,
                   lastCall, unitCalls, unitDelays, lastUnit, created,
                   publishedOk, selectAnswer, decideAnswer, enrichment,
                   lastGen, totalCalls, postedUnits, primaryCreated, repeated>>

\* lines 116-123: process_fetched_tweets, with its call of select_tweet, and
\* the first lines of handle_selected_tweet
ProcessFetched ==
    /\ pc = "process"
    /\ LET pool == FilterUnseen(fetched_tweets, processed_tweet_ids)
       IN  /\ unprocessed_tweets' = pool
           /\ IF pool = <<>>
              THEN /\ selected_tweet' = NoTweet
                   /\ EndCycle("empty_pool")
                   /\ UNCHANGED <<calls, selectAnswer>>
              ELSE \E o \in SectionAnswers(SelectBodies) :
                     LET sel == ResponseSection(o)
                         tweet == IF Truthy(sel) THEN LocateSelected(pool, sel)
                                  ELSE NoTweet
                     IN  /\ selected_tweet' = tweet
                         /\ calls' = Entered("select")
                         /\ selectAnswer' = <<o>>
                         /\ IF tweet = NoTweet
                            THEN EndCycle("no_selection")
                            ELSE pc' = "enrich" /\ outcome' = "running"
    /\ UNCHANGED <<CYCLE_LENGTH, processed_tweet_ids, fetched_tweets,
                   research_summary, is_quote_tweet, gen_attempt,
                   response_text, thread, unit, attempt, main_tweet,
                   thread_tweets, in_reply_to_tweet_id, cycleStartStore,
                   slept, tooLong, lastCall, unitCalls, unitDelays, lastUnit,
                   created, publishedOk, decideAnswer, lastSleep, enrichment,
                   lastGen, totalCalls, postedUnits, primaryCreated,
                   repeated, response_data>>

\* handle_selected_tweet lines 55-61.  The batch and the pool are not read
\* again in this cycle (main_cycle drops the pool at line 116): the model
\* forgets them here.
Enrich ==
    /\ pc = "enrich"
    /\ \E t \in SectionAnswers(TopicBodies), r \in ResearchOutcomes :
         LET research_topic == ResponseSection(t)
             \* line 58: research_topic(...) is called only for a truthy topic
             consulted == Truthy(research_topic)
         IN  /\ research_summary' = ResearchSummary(research_topic, r)
             /\ enrichment' = <<[topic |-> t, consulted |-> consulted,
                                 research |-> IF consulted THEN r ELSE None]>>
    /\ pc' = "decide"
    /\ fetched_tweets' = <<>>
    /\ response_data' = <<>>
    /\ unprocessed_tweets' = <<>>
    /\ selectAnswer' = <<>>
    /\ calls' = Entered("enrich")
    /\ UNCHANGED <<CYCLE_LENGTH, processed_tweet_ids, selected_tweet,
                   is_quote_tweet, gen_attempt, response_text, thread, unit,
                   attempt, main_tweet, thread_tweets, in_reply_to_tweet_id,
                   cycleStartStore, outcome, slept, tooLong, lastCall,
                   unitCalls, unitDelays, lastUnit, created, publishedOk,
                   decideAnswer, lastSleep, lastGen, totalCalls, postedUnits,
                   primaryCreated, repeated>>

\* handle_selected_tweet line 64
Decide ==
    /\ pc = "decide"
    /\ \E o \in DecideAnswers :
         /\ is_quote_tweet' = DecideQuoteOrReply(o)
         /\ pc' = IF is_quote_tweet' THEN "generate_quote" ELSE "generate_reply"
         /\ decideAnswer' = <<o>>
    /\ calls' = Entered("plan")
    /\ enrichment' = <<>>
    /\ UNCHANGED <<CYCLE_LENGTH, processed_tweet_ids, fetched_tweets,
                   unprocessed_tweets, selected_tweet, research_summary,
                   gen_attempt, response_text, thread, unit, attempt,
                   main_tweet, thread_tweets, in_reply_to_tweet_id,
                   cycleStartStore, outcome, slept, tooLong, lastCall,
                   unitCalls, unitDelays, lastUnit, created, publishedOk,
                   selectAnswer, lastSleep, lastGen, totalCalls, postedUnits,
                   primaryCreated, repeated, response_data>>

\* a generator loop that makes one pass too many
AttemptsLeftOneMore(a) == a < MaxAttempts

\* a generator that gives up after its first pass
AttemptsLeftNever(a) == FALSE

\* while attempt < max_attempts, after attempt a (0-based) was consumed
AttemptsLeft(a) == a + 1 < MaxAttempts

\* handle_selected_tweet lines 75-77: if not response_text
NothingToPost(text) == text = <<>>

\* one pass of the loop of generate_reply.  When generate_reply returns (the
\* text of a valid attempt, or None once the attempts are used up), lines
\* 75-77 of handle_selected_tweet.  The context is not read after the
\* generator returned: the model forgets the research summary there.
GenerateReplyAttempt ==
    /\ pc = "generate_reply"
    /\ \E a \in ReplyAttempts :
         LET returns == a.status = "ok" \/ ~AttemptsLeft(gen_attempt)
             text == IF a.status = "ok" THEN a.text ELSE <<>>
         IN  /\ gen_attempt' = IF returns THEN 0 ELSE gen_attempt + 1
             /\ lastGen' = [calls |-> gen_attempt + 1, status |-> a.status,
                            returned |-> returns]
             /\ tooLong' = IF a.status = "ok" THEN 0
                           ELSE tooLong + (IF a.status = "too_long" THEN 1 ELSE 0)
             /\ response_text' = IF returns THEN text ELSE response_text
             /\ research_summary' = IF returns THEN "" ELSE research_summary
             /\ IF ~returns THEN UNCHANGED <<pc, outcome>>
                ELSE IF NothingToPost(text) THEN EndCycle("gen_failed")
                ELSE pc' = PublishOperation(is_quote_tweet) /\ UNCHANGED outcome
             /\ calls' = IF returns /\ ~NothingToPost(text)
                          THEN Append(Entered("generate"),
                                      PublishOperation(is_quote_tweet))
                          ELSE Entered("generate")
    /\ decideAnswer' = <<>>
    /\ UNCHANGED <<CYCLE_LENGTH, processed_tweet_ids, fetched_tweets,
                   unprocessed_tweets, selected_tweet, is_quote_tweet,
                   thread, unit, attempt, main_tweet, thread_tweets,
                   in_reply_to_tweet_id, cycleStartStore, slept, lastCall,
                   unitCalls, unitDelays, lastUnit, created, publishedOk,
                   selectAnswer, lastSleep, enrichment, totalCalls,
                   postedUnits, primaryCreated, repeated, response_data>>

\* one pass of the loop of generate_quote_tweet.  When it returns (a valid
\* attempt, or None, None, [] once the attempts are used up), lines 75-77 of
\* handle_selected_tweet.
GenerateQuoteAttempt ==
    /\ pc = "generate_quote"
    /\ \E a \in QuoteAttempts :
         LET returns == a.status = "ok" \/ ~AttemptsLeft(gen_attempt)
             text == IF a.status = "ok" THEN a.text ELSE <<>>
             list == IF a.status = "ok" THEN a.thread ELSE <<>>
         IN  /\ gen_attempt' = IF returns THEN 0 ELSE gen_attempt + 1
             /\ lastGen' = [calls |-> gen_attempt + 1, status |-> a.status,
                            returned |-> returns]
             /\ tooLong' = IF a.status = "ok" THEN 0
                           ELSE tooLong + (IF a.status = "too_long" THEN 1 ELSE 0)
             /\ response_text' = IF returns THEN text ELSE response_text
             /\ research_summary' = IF returns THEN "" ELSE research_summary
             /\ thread' = IF returns THEN list ELSE thread
             /\ IF ~returns THEN UNCHANGED <<pc, outcome>>
                ELSE IF NothingToPost(text) THEN EndCycle("gen_failed")
                ELSE pc' = PublishOperation(is_quote_tweet) /\ UNCHANGED outcome
             /\ calls' = IF returns /\ ~NothingToPost(text)
                          THEN Append(Entered("generate"),
                                      PublishOperation(is_quote_tweet))
                          ELSE Entered("generate")
    /\ decideAnswer' = <<>>
    /\ UNCHANGED <<CYCLE_LENGTH, processed_tweet_ids, fetched_tweets,
                   unprocessed_tweets, selected_tweet, is_quote_tweet, unit,
                   attempt, main_tweet, thread_tweets, in_reply_to_tweet_id,
                   cycleStartStore, slept, lastCall, unitCalls, unitDelays,
                   lastUnit, created, publishedOk, selectAnswer, lastSleep,
                   enrichment, totalCalls, postedUnits, primaryCreated,
                   repeated, response_data>>

UnitResult(r) ==
    IF r = "ok" THEN "posted" ELSE IF Caught(r) THEN "failed" ELSE "raised"

\* one create_tweet call of post_reply (lines 188-208); when post_reply
\* returns, lines 92-94 of handle_selected_tweet
PostReplyCreate ==
    /\ pc = "post_reply"
    /\ lastGen' = NoGen
    /\ totalCalls' = totalCalls + 1
    /\ \E r \in CreateOutcomes :
         LET call == ReplyCall(response_text, selected_tweet.tweet_id)
             retry == Caught(r) /\ LoopContinues(attempt)
             delays == unitDelays
                       + (IF Caught(r) /\ DelayAfter(attempt) THEN 1 ELSE 0)
         IN  /\ lastCall' = [kind |-> call.kind, target |-> call.target,
                             text |-> call.text, unit |-> 0, result |-> r]
             /\ postedUnits' = IF r = "ok" THEN postedUnits \cup {0} ELSE postedUnits
             /\ primaryCreated' = IF r = "ok" THEN primaryCreated \cup {call.target}
                                  ELSE primaryCreated
             /\ repeated' = (repeated \/ (r = "ok" /\ call.target \in primaryCreated))
             /\ created' = (created \/ r = "ok")
             /\ attempt' = IF retry THEN attempt + 1 ELSE attempt
             /\ unitCalls' = IF retry THEN unitCalls + 1 ELSE 0
             /\ unitDelays' = IF retry THEN delays ELSE 0
             /\ lastUnit' = IF retry THEN NoUnit
                            ELSE [unit |-> 0, calls |-> unitCalls + 1,
                                  delays |-> delays, result |-> UnitResult(r)]
             /\ IF r = "other"
                THEN /\ CatchException
                     /\ calls' = calls
                     /\ UNCHANGED <<processed_tweet_ids, publishedOk>>
                ELSE IF retry
                THEN /\ calls' = calls
                     /\ UNCHANGED <<pc, outcome, processed_tweet_ids, publishedOk>>
                ELSE AfterPublish(r = "ok")
    /\ UNCHANGED <<CYCLE_LENGTH, fetched_tweets, unprocessed_tweets,
                   selected_tweet, research_summary, is_quote_tweet,
                   gen_attempt, response_text, thread, unit, main_tweet,
                   thread_tweets, in_reply_to_tweet_id, cycleStartStore,
                   slept, tooLong, selectAnswer, decideAnswer, lastSleep,
                   enrichment, response_data>>

\* one create_tweet call of post_quote_tweet, made by post_tweet_with_retry
\* (lines 126-152) for the primary post (line 156) or for a segment of the
\* thread (lines 165-175); when post_quote_tweet returns, lines 92-94 of
\* handle_selected_tweet
PostQuoteCreate ==
    /\ pc = "post_quote"
    /\ lastGen' = NoGen
    /\ totalCalls' = totalCalls + 1
    /\ \E r \in CreateOutcomes :
         LET text == IF unit = 0 THEN response_text ELSE thread[unit]
             in_reply_to == IF unit = 0 THEN NoId ELSE in_reply_to_tweet_id
             call == HelperCall(text, in_reply_to, selected_tweet.tweet_id)
             raised == r = "other"
             retry == Caught(r) /\ LoopContinues(attempt)
             returned == ~raised /\ ~retry
             post == IF r = "ok" THEN PostResult(unit, text) ELSE NoPost
             delays == unitDelays
                       + (IF Caught(r) /\ DelayAfter(attempt) THEN 1 ELSE 0)
             abort == returned /\ PrimaryFailed(unit, post)
             \* line 177: nothing left of the thread
             finished == returned /\ ~abort /\ unit = Len(thread)
             advance == returned /\ ~abort /\ ~finished
         IN  /\ lastCall' = [kind |-> call.kind, target |-> call.target,
                             text |-> call.text, unit |-> unit, result |-> r]
             /\ postedUnits' = IF r = "ok" THEN postedUnits \cup {unit}
                               ELSE postedUnits
             /\ primaryCreated' = IF r = "ok" /\ unit = 0
                                  THEN primaryCreated \cup {call.target}
                                  ELSE primaryCreated
             /\ repeated' = (repeated \/ (/\ r = "ok"
                                          /\ unit = 0
                                          /\ call.target \in primaryCreated))
             /\ created' = (created \/ (unit = 0 /\ r = "ok"))
             /\ attempt' = IF retry THEN attempt + 1
                           ELSE IF advance THEN RangeStart(attempt) ELSE attempt
             /\ unit' = IF advance THEN unit + 1 ELSE unit
             /\ main_tweet' = IF returned /\ unit = 0 THEN post ELSE main_tweet
             /\ thread_tweets' = IF returned /\ unit > 0
                                 THEN NextThreadTweets(thread_tweets, post)
                                 ELSE thread_tweets
             /\ in_reply_to_tweet_id' =
                    IF advance /\ unit = 0 THEN post.tweet_id
                    ELSE IF returned /\ unit > 0
                    THEN NextAnchor(in_reply_to_tweet_id, post)
                    ELSE in_reply_to_tweet_id
             /\ unitCalls' = IF retry THEN unitCalls + 1 ELSE 0
             /\ unitDelays' = IF retry THEN delays ELSE 0
             /\ lastUnit' = IF retry THEN NoUnit
                            ELSE [unit |-> unit, calls |-> unitCalls + 1,
                                  delays |-> delays, result |-> UnitResult(r)]
             /\ IF raised
                THEN /\ CatchException
                     /\ calls' = calls
                     /\ UNCHANGED <<processed_tweet_ids, publishedOk>>
                ELSE IF abort THEN AfterPublish(FALSE)
                ELSE IF finished THEN AfterPublish(TRUE)
                ELSE /\ calls' = calls
                     /\ UNCHANGED <<pc, outcome, processed_tweet_ids, publishedOk>>
    /\ UNCHANGED <<CYCLE_LENGTH, fetched_tweets, unprocessed_tweets,
                   selected_tweet, research_summary, is_quote_tweet,
                   gen_attempt, response_text, thread, cycleStartStore,
                   slept, tooLong, selectAnswer, decideAnswer, lastSleep,
                   enrichment, response_data>>

\* lines 128-133: the jittered sleep, then the next pass of `while True`
Sleep ==
    /\ pc = "sleep"
    /\ pc' = "fetch"
    /\ slept' = TRUE
    /\ outcome' = "running"
    /\ fetched_tweets' = <<>>
    /\ response_data' = <<>>
    /\ unprocessed_tweets' = <<>>
    /\ selected_tweet' = NoTweet
    /\ research_summary' = ""
    /\ is_quote_tweet' = FALSE
    /\ gen_attempt' = 0
    /\ response_text' = <<>>
    /\ thread' = <<>>
    /\ unit' = 0
    /\ attempt' = 0
    /\ main_tweet' = NoPost
    /\ thread_tweets' = <<>>
    /\ in_reply_to_tweet_id' = NoId
    /\ tooLong' = 0
    /\ lastCall' = NoCall
    /\ unitCalls' = 0
    /\ unitDelays' = 0
    /\ lastUnit' = NoUnit
    /\ created' = FALSE
    /\ calls' = <<>>
    /\ selectAnswer' = <<>>
    /\ decideAnswer' = <<>>
    /\ enrichment' = <<>>
    /\ lastGen' = NoGen
    /\ totalCalls' = 0
    /\ postedUnits' = {}
    /\ repeated' = FALSE
    /\ \E variance \in Variances :
         lastSleep' = <<CycleTime(CYCLE_LENGTH, variance)>>
    /\ UNCHANGED <<CYCLE_LENGTH, processed_tweet_ids, cycleStartStore,
                   publishedOk, primaryCreated>>

Next ==
    \/ Fetch
    \/ ProcessFetched
    \/ Enrich
    \/ Decide
    \/ GenerateReplyAttempt
    \/ GenerateQuoteAttempt
    \/ PostReplyCreate
    \/ PostQuoteCreate
    \/ Sleep

Spec == Init /\ [][Next]_vars

\* the loop runs on: every blocking call returns or raises
FairSpec == Spec /\ WF_vars(Next)

(***************************************************************************)
(* Properties                                                              *)
(***************************************************************************)
CycleOver == pc = "sleep"

\* C1: whenever the platform created the reply or the primary quote post for
\* the selected candidate during a cycle, whatever became of the thread
\* segments afterwards, the candidate's identifier is in the deduplication
\* store when the cycle ends.
C1_CreatedIsMarked ==
    (CycleOver /\ created) => selected_tweet.tweet_id \in processed_tweet_ids

\* C2: every identifier in the store is that of a candidate whose publish
\* operation returned success, and a cycle in which selection returned none,
\* generation failed or publishing returned failure adds no identifier.
C2_StoreOnlyPublished ==
    /\ processed_tweet_ids \subseteq publishedOk
    /\ (CycleOver /\ outcome \in {"no_selection", "gen_failed", "publish_failed"})
           => processed_tweet_ids = cycleStartStore

\* a cycle whose publish operation returned failure ends with an earlier
\* cycle's identifier in the store
C2_Witness ==
    /\ CycleOver
    /\ outcome = "publish_failed"
    /\ processed_tweet_ids # {}

\* C3: the loop is about to fetch only when a sleep has completed since the
\* previous fetch, whatever the outcome of the previous cycle.
C3_SleepBeforeNextFetch == pc = "fetch" => slept

\* the pool is still held: process_fetched_tweets has run in this cycle and
\* handle_selected_tweet has not gone past its first lines
PoolHeld ==
    \/ pc = "enrich"
    \/ CycleOver /\ outcome \in {"empty_pool", "no_selection"}

\* C4: the selection pool is exactly the subsequence of the batch whose
\* identifiers are absent from the store, in the batch's order: the k-th
\* element of the pool is the k-th unseen element of the batch.
C4_PoolIsUnseenSubsequence ==
    PoolHeld =>
        LET unseen == {i \in 1 .. Len(fetched_tweets) :
                          fetched_tweets[i].tweet_id \notin processed_tweet_ids}
        IN  /\ Len(unprocessed_tweets) = Cardinality(unseen)
            /\ \A k \in 1 .. Len(unprocessed_tweets) :
                 \E i \in unseen :
                    /\ Cardinality({j \in unseen : j <= i}) = k
                    /\ unprocessed_tweets[k] = fetched_tweets[i]

\* batch [A, B] with A in the store: the pool is [B]
C4_Witness ==
    /\ pc = "enrich"
    /\ Len(fetched_tweets) = 2
    /\ fetched_tweets[1].tweet_id \in processed_tweet_ids
    /\ unprocessed_tweets = <<fetched_tweets[2]>>

\* C5: when all 3 attempts of a cycle produced a primary text longer than 280
\* characters, the cycle is over with generation failed, no create call was
\* made and the store is what it was when the cycle began, in reply mode and
\* in quote mode.
C5_TooLongPostsNothing ==
    tooLong = 3 =>
        /\ CycleOver
        /\ outcome = "gen_failed"
        /\ response_text = <<>>
        /\ lastCall = NoCall
        /\ ~created
        /\ processed_tweet_ids = cycleStartStore

\* three over-long attempts in quote mode, with a store that is not empty
C5_Witness ==
    /\ tooLong = 3
    /\ is_quote_tweet
    /\ processed_tweet_ids # {}

Publishing == pc \in {"post_reply", "post_quote"}

\* C6: every text handed to a create call is at most 280 characters long:
\* the text and every thread segment that the generator returned to the
\* publisher, and the text of every create call made.
C6_PostedTextsFit ==
    /\ Publishing =>
          /\ TextLen(response_text) <= 280
          /\ \A i \in 1 .. Len(thread) : TextLen(thread[i]) <= 280
    /\ lastCall # NoCall => TextLen(lastCall.text) <= 280

\* a thread segment of exactly 280 characters was handed to a create call
C6_Witness ==
    /\ lastCall.unit > 0
    /\ TextLen(lastCall.text) = 280

\* C7: in post_quote_tweet, when the primary post failed on all its attempts
\* the operation returned failure, and no create call for a thread segment
\* is ever made without a primary post.
C7_NoThreadWithoutPrimary ==
    /\ (is_quote_tweet /\ lastUnit.unit = 0 /\ lastUnit.result = "failed") =>
          /\ CycleOver
          /\ outcome = "publish_failed"
          /\ lastCall.unit = 0
          /\ thread_tweets = <<>>
    /\ lastCall.unit > 0 => main_tweet # NoPost

\* the primary post of a quote with a thread failed on all its attempts
C7_Witness ==
    /\ is_quote_tweet
    /\ thread # <<>>
    /\ lastUnit.unit = 0
    /\ lastUnit.result = "failed"

\* the posts of this operation that were created before the last create call
PostedBeforeLastCall ==
    IF lastCall.result = "ok" /\ lastCall.unit > 0
    THEN SubSeq(thread_tweets, 1, Len(thread_tweets) - 1)
    ELSE thread_tweets

\* the most recent successfully posted segment, or the primary post
LastPosted(tweets) ==
    IF tweets = <<>> THEN main_tweet.tweet_id ELSE tweets[Len(tweets)].tweet_id

\* every create call for a segment is a reply to the last post created before it
C8_SegmentCalls ==
    lastCall.unit > 0 =>
        /\ lastCall.kind = "reply"
        /\ lastCall.target = LastPosted(PostedBeforeLastCall)
        /\ lastCall.text = thread[lastCall.unit]

\* the segments are attempted in order, none skipped, a failed segment is
\* followed by the next one, and the operation returns after the last
C8_SegmentOrder ==
    /\ pc = "post_quote" =>
          /\ unit \in 0 .. Len(thread)
          /\ unit \in {lastCall.unit, lastCall.unit + 1}
    /\ (lastUnit.result = "failed" /\ lastUnit.unit \in 1 .. Len(thread) - 1) =>
          /\ pc = "post_quote"
          /\ unit = lastUnit.unit + 1
    /\ (is_quote_tweet /\ outcome = "published") => lastCall.unit = Len(thread)

\* the chain anchor changes only in a step that posted a segment, or the
\* primary post, successfully, and then to that post
C8_AnchorStep ==
    (pc = "post_quote" /\ in_reply_to_tweet_id' # in_reply_to_tweet_id) =>
        /\ lastCall'.result = "ok"
        /\ in_reply_to_tweet_id' = PostId(lastCall'.unit)

\* C8: after a successful primary post, the segments of the thread are
\* attempted in order even if earlier ones failed, every create call for a
\* segment is a reply whose parent is the most recent successfully posted
\* segment (the primary post if there is none), and the chain anchor changes
\* only when a segment is posted.
C8_ThreadChain ==
    /\ [](C8_SegmentCalls /\ C8_SegmentOrder)
    /\ [][C8_AnchorStep]_vars

\* segment 1 failed, segment 2 was posted as a reply to the primary post
C8_Witness ==
    /\ lastCall.unit = 2
    /\ lastCall.result = "ok"
    /\ Len(thread_tweets) = 1
    /\ lastCall.target = main_tweet.tweet_id

\* C9: for post_reply and the primary post of post_quote_tweet: while the
\* retry loop runs, as many create calls and delays were made as attempts
\* failed; a post that succeeded on attempt k took k create calls (at most 4)
\* and k - 1 delays and yields one PostResult; a post that failed took 4
\* create calls and 3 delays and yields failure.
C9_RetryBudget ==
    /\ (Publishing /\ unit = 0) => (unitCalls = attempt /\ unitDelays = attempt)
    /\ (lastUnit.unit = 0 /\ lastUnit.result = "posted") =>
          /\ lastUnit.calls \in 1 .. 4
          /\ lastUnit.delays = lastUnit.calls - 1
          /\ lastCall.unit = 0 /\ lastCall.result = "ok"
          /\ IF is_quote_tweet
             THEN main_tweet = [tweet_id |-> PostId(0), text |-> response_text]
             ELSE CycleOver /\ outcome = "published"
    /\ (lastUnit.unit = 0 /\ lastUnit.result = "failed") =>
          /\ lastUnit.calls = 4
          /\ lastUnit.delays = 3
          /\ CycleOver
          /\ outcome = "publish_failed"
          /\ main_tweet = NoPost

\* attempts 1 to 3 raised transient errors and attempt 4 succeeded
C9_Witness ==
    /\ lastUnit.unit = 0
    /\ lastUnit.result = "posted"
    /\ lastUnit.calls = 4

\* C10: an exception that escapes a cycle is caught: the loop goes on to the
\* sleep with the store as it was when the cycle began, the loop has no
\* terminal state, and a next cycle is always started.
C10_ExceptionNeverStops ==
    /\ [](outcome = "exception" => (CycleOver /\ processed_tweet_ids = cycleStartStore))
    /\ [](pc \in {"fetch", "process", "enrich", "decide", "generate_reply",
                  "generate_quote", "post_reply", "post_quote", "sleep"})
    /\ (outcome = "exception") ~> (pc = "fetch" /\ outcome = "running")
    /\ []<>(pc = "fetch")

\* an exception escaped the publisher in a cycle that began with a store
\* that is not empty
C10_Witness ==
    /\ outcome = "exception"
    /\ lastCall.result = "other"
    /\ cycleStartStore # {}

\* C11: the planner decides for a quote exactly when the oracle call returned,
\* its answer holds the decision marker and the text after the marker reads
\* "quote tweet" in some case; a raising call, a missing marker and any other
\* text, "Reply" among them, give a reply.
C11_DecideDefaultsToReply ==
    decideAnswer # <<>> =>
        LET o == decideAnswer[1]
            quote == /\ ~o.raises
                     /\ o.hasDecision
                     /\ o.body \in {"quote tweet", "Quote Tweet", "QUOTE TWEET"}
        IN  /\ is_quote_tweet <=> quote
            /\ pc = IF quote THEN "generate_quote" ELSE "generate_reply"

\* the oracle answered "### Decision ###\nReply": reply mode
C11_Witness ==
    /\ decideAnswer = <<[raises |-> FALSE, hasDecision |-> TRUE, body |-> "Reply"]>>
    /\ ~is_quote_tweet
    /\ pc = "generate_reply"

\* the selection oracle's answer names no candidate of the pool: the call
\* raised, a marker is missing, the answer is empty or "none", or it is not
\* the string form of an identifier of the pool
NamesNoCandidate(o, pool) ==
    \/ o.raises
    \/ ~o.hasAnalysis
    \/ ~o.hasResponse
    \/ o.body \in {"", "none", "None", "NONE"}
    \/ \A i \in 1 .. Len(pool) : o.body # ToString(pool[i].tweet_id)

\* C12: when the selection oracle's answer names no candidate of the pool,
\* the cycle has no selected candidate, has entered no stage after the
\* selection, has made no create call, has the store it began with, and is at
\* its sleep without an exception.
C12_NoSelectionSkipsCycle ==
    (selectAnswer # <<>> /\ NamesNoCandidate(selectAnswer[1], unprocessed_tweets)) =>
        /\ selected_tweet = NoTweet
        /\ CycleOver
        /\ outcome = "no_selection"
        /\ calls = <<"fetch", "select">>
        /\ research_summary = ""
        /\ response_text = <<>>
        /\ lastCall = NoCall
        /\ processed_tweet_ids = cycleStartStore

\* the oracle answered with the identifier of a fetched candidate that is in
\* the store, so not in the pool
C12_Witness ==
    /\ selectAnswer # <<>>
    /\ ~selectAnswer[1].raises
    /\ \E i \in 1 .. Len(fetched_tweets) :
          /\ selectAnswer[1].body = ToString(fetched_tweets[i].tweet_id)
          /\ fetched_tweets[i].tweet_id \in processed_tweet_ids
    /\ unprocessed_tweets # <<>>
    /\ CycleOver

\* C13: every sleep between two cycles lasts at least 1 second, whatever the
\* base interval (0 or more) and the jitter.
C13_SleepAtLeastFloor ==
    lastSleep # <<>> => lastSleep[1] >= 1

\* C14: with a base interval of 100 every sleep lasts between 90 and 110
\* seconds, and with any positive base interval between base - base/10 and
\* base + base/10 seconds.
C14_SleepWithinTenth ==
    (lastSleep # <<>> /\ CYCLE_LENGTH > 0) =>
        /\ CYCLE_LENGTH = 100 => lastSleep[1] \in 90 .. 110
        /\ 10 * lastSleep[1] >= 9 * CYCLE_LENGTH
        /\ 10 * lastSleep[1] <= 11 * CYCLE_LENGTH

\* a base interval of 100 and a jitter of -10%: a sleep of 90 seconds
C14_Witness ==
    /\ CYCLE_LENGTH = 100
    /\ lastSleep = <<90>>

\* the context exists: it is handed to the planner, then to the generator
ContextHeld == pc \in {"decide", "generate_reply", "generate_quote"}

\* the query step produced a query: the call returned, both markers are
\* there, and the answer is neither empty nor "none"
QueryProduced(t) ==
    /\ ~t.raises
    /\ t.hasAnalysis
    /\ t.hasResponse
    /\ t.body \notin {"", "none", "None", "NONE"}

\* C15: the research summary of the context is never empty: it is the
\* research oracle's summary when a query was produced and the research
\* returned a summary, and the placeholder otherwise; the research oracle is
\* consulted exactly when a query was produced, and whatever failed the
\* cycle goes on to the planner.
C15_ResearchSummaryNeverEmpty ==
    /\ ContextHeld => research_summary # ""
    /\ enrichment # <<>> =>
          LET e == enrichment[1]
              found == /\ QueryProduced(e.topic)
                       /\ e.research \notin {[some |-> FALSE, s |-> ""],
                                              [some |-> TRUE, s |-> ""]}
          IN  /\ e.consulted <=> QueryProduced(e.topic)
              /\ research_summary = IF found THEN e.research.s
                                    ELSE "No additional insights available."
              /\ pc = "decide"
              /\ outcome = "running"

\* a query was produced and the research failed: the placeholder
C15_Witness ==
    /\ enrichment # <<>>
    /\ enrichment[1].consulted
    /\ ~enrichment[1].research.some
    /\ research_summary = "No additional insights available."
    /\ pc = "decide"

InGenerator == pc \in {"generate_reply", "generate_quote"}

\* what became of the last pass of the generator's loop
C16_AttemptConsumed ==
    /\ InGenerator => gen_attempt \in 0 .. 2
    /\ lastGen # NoGen =>
          /\ lastGen.calls \in 1 .. 3
          \* a valid attempt is returned at once
          /\ lastGen.status = "ok" =>
                /\ lastGen.returned
                /\ \/ pc = (IF is_quote_tweet THEN "post_quote" ELSE "post_reply")
                   \/ CycleOver /\ outcome = "gen_failed" /\ response_text = <<>>
          \* any other attempt but the third is retried as a whole
          /\ (lastGen.status # "ok" /\ lastGen.calls < 3) =>
                /\ ~lastGen.returned
                /\ pc = (IF is_quote_tweet THEN "generate_quote" ELSE "generate_reply")
                /\ gen_attempt = lastGen.calls
                /\ response_text = <<>>
                /\ thread = <<>>
          \* the third gives the sentinel, and no exception
          /\ (lastGen.status # "ok" /\ lastGen.calls = 3) =>
                /\ lastGen.returned
                /\ response_text = <<>>
                /\ thread = <<>>
                /\ CycleOver
                /\ outcome = "gen_failed"
                /\ lastCall = NoCall

\* C16: a generator makes at most 3 oracle calls and always returns: an
\* attempt that is too long, malformed or raises consumes one attempt and is
\* retried as a whole, the first valid attempt is returned at once, and
\* after 3 consumed attempts the result is the sentinel, with an empty
\* thread, and no exception.
C16_GeneratorBounded ==
    /\ []C16_AttemptConsumed
    /\ InGenerator ~> ~InGenerator

\* a quote whose third attempt had a thread segment too long
C16_Witness ==
    /\ lastGen = [calls |-> 3, status |-> "thread_too_long", returned |-> TRUE]
    /\ is_quote_tweet
    /\ CycleOver

\* a step that changes the store adds the selected candidate's identifier,
\* on the return of a publish operation that succeeded
C17_StoreStep ==
    processed_tweet_ids' # processed_tweet_ids =>
        /\ processed_tweet_ids' = processed_tweet_ids \cup {selected_tweet.tweet_id}
        /\ Publishing
        /\ pc' = "sleep"
        /\ outcome' = "published"

\* C17: the store only grows: no step removes an identifier, the only step
\* that changes it is the return of a publish operation that succeeded, which
\* adds the selected candidate's identifier, and a cycle adds at most one
\* identifier.
C17_StoreOnlyGrows ==
    /\ [][C17_StoreStep]_vars
    /\ [](Cardinality(processed_tweet_ids \ cycleStartStore) <= 1)

\* a second identifier was added to the store
C17_Witness ==
    /\ Cardinality(processed_tweet_ids) = 2
    /\ Cardinality(cycleStartStore) = 1
    /\ outcome = "published"

\* C18: once the primary quote post is created, a segment that failed on all
\* its attempts does not fail the operation: the next segment follows, or
\* after the last one the operation has returned success and the candidate
\* is in the store; a candidate in the store when a cycle began is not
\* posted to in that cycle.
C18_PartialThreadIsSuccess ==
    /\ (is_quote_tweet /\ lastUnit.unit > 0 /\ lastUnit.result = "failed") =>
          IF lastUnit.unit < Len(thread)
          THEN pc = "post_quote" /\ unit = lastUnit.unit + 1
          ELSE /\ CycleOver
               /\ outcome = "published"
               /\ main_tweet # NoPost
               /\ Len(thread_tweets) < Len(thread)
               /\ selected_tweet.tweet_id \in processed_tweet_ids
    /\ lastCall # NoCall => selected_tweet.tweet_id \notin cycleStartStore

\* every segment of a thread of two failed, and the operation succeeded
C18_Witness ==
    /\ is_quote_tweet
    /\ Len(thread) = 2
    /\ thread_tweets = <<>>
    /\ lastUnit.unit = 2
    /\ lastUnit.result = "failed"
    /\ outcome = "published"

\* C19: a create call that the platform refused for a reason that will not
\* pass is not followed by another attempt for the same post.
C19_RefusalNotRetried ==
    lastCall.result = "rejected" => ~(Publishing /\ unit = lastCall.unit /\ attempt > 0)

\* C20: in post_quote_tweet every post has a budget of 4 attempts of its
\* own: its count starts at 0 whatever the posts before it consumed, a post
\* that failed took 4 create calls, none takes more, and the operation makes
\* at most 4 * (1 + n) create calls for a thread of n segments.
C20_BudgetPerUnit ==
    is_quote_tweet =>
        /\ Publishing => (unitCalls = attempt /\ attempt \in 0 .. 3)
        /\ lastUnit # NoUnit =>
              /\ lastUnit.calls \in 1 .. 4
              /\ lastUnit.result = "failed" => lastUnit.calls = 4
        /\ totalCalls <= 4 * (1 + Len(thread))

\* the primary post took 4 attempts and each of two segments failed 4 times
C20_Witness ==
    /\ is_quote_tweet
    /\ Len(thread) = 2
    /\ totalCalls = 12
    /\ lastUnit.unit = 2
    /\ lastUnit.calls = 4

\* post_quote_tweet returned its pair
QuoteReturned == is_quote_tweet /\ CycleOver /\ outcome = "published"

\* C21: when post_quote_tweet returns success, its first result is the
\* PostResult of the primary post, and its second holds one PostResult for
\* each segment the platform created, and no other, in the order of the
\* thread, each with the text that was posted.
C21_ThreadResultsInOrder ==
    QuoteReturned =>
        /\ main_tweet = [tweet_id |-> PostId(0), text |-> response_text]
        /\ Len(thread_tweets) = Cardinality(postedUnits \ {0})
        /\ Len(thread_tweets) \in 0 .. Len(thread)
        /\ \A i \in 1 .. Len(thread_tweets) :
              \E u \in postedUnits \ {0} :
                 /\ Cardinality({v \in postedUnits \ {0} : v <= u}) = i
                 /\ thread_tweets[i] = [tweet_id |-> PostId(u), text |-> thread[u]]

\* both segments of a thread of two different texts were posted
C21_Witness ==
    /\ QuoteReturned
    /\ Len(thread_tweets) = 2
    /\ thread[1] # thread[2]

\* C22: the selection oracle is asked only about a pool that is not empty;
\* a cycle whose fetch returned nothing, or whose fetched candidates are all
\* in the store, has entered no stage after the fetch: no selection, no
\* context, no generated text, no create call, and the store it began with.
C22_NoSelectionOnEmptyPool ==
    /\ selectAnswer # <<>> => unprocessed_tweets # <<>>
    /\ LET nothingNew ==
               \/ outcome = "empty_fetch"
               \/ /\ CycleOver
                  /\ fetched_tweets # <<>>
                  /\ \A i \in 1 .. Len(fetched_tweets) :
                        fetched_tweets[i].tweet_id \in processed_tweet_ids
       IN  nothingNew =>
               /\ calls = <<"fetch">>
               /\ selectAnswer = <<>>
               /\ selected_tweet = NoTweet
               /\ research_summary = ""
               /\ response_text = <<>>
               /\ lastCall = NoCall
               /\ processed_tweet_ids = cycleStartStore

\* a batch of two candidates, both in the store
C22_Witness ==
    /\ CycleOver
    /\ Len(fetched_tweets) = 2
    /\ fetched_tweets[1].tweet_id # fetched_tweets[2].tweet_id
    /\ \A i \in 1 .. 2 : fetched_tweets[i].tweet_id \in processed_tweet_ids

\* C23: over the whole run, the platform creates at most one reply or
\* primary quote post for a candidate.
C23_OnePrimaryPerCandidate == ~repeated

\* C24: no candidate that was in the store when the cycle began is selected
\* in that cycle, and no create call of the cycle targets one.
C24_SeenNeverTargeted ==
    /\ selected_tweet # NoTweet =>
          /\ selected_tweet.tweet_id \in Ids
          /\ selected_tweet.tweet_id \notin cycleStartStore
    /\ lastCall # NoCall =>
          /\ lastCall.target \notin cycleStartStore
          /\ lastCall.unit = 0 => lastCall.target = selected_tweet.tweet_id

\* a create call in a cycle that began with a candidate in the store
C24_Witness ==
    /\ cycleStartStore # {}
    /\ lastCall.unit = 0
    /\ lastCall.result = "ok"
    /\ lastCall.target \in Ids \ cycleStartStore

\* the stages of one cycle in the order handle_selected_tweet runs them,
\* with the publish operation the decision calls for
StageOrder(is_quote) ==
    <<"fetch", "select", "enrich", "plan", "generate",
      IF is_quote THEN "post_quote" ELSE "post_reply", "mark">>

PublishInvocations ==
    Cardinality({i \in 1 .. Len(calls) : calls[i] \in {"post_quote", "post_reply"}})

\* C25: the stages of a cycle run in the order enrich, plan, generate,
\* publish, mark; at most one publish operation is invoked, post_quote_tweet
\* when the decision was a quote and post_reply when it was a reply, only
\* with a non-empty generated primary text; the primary create call carries
\* that text to the selected tweet, and thread units carry the generated
\* thread.
C25_PublishMatchesDecision ==
    /\ Len(calls) <= 7
    /\ calls = SubSeq(StageOrder(is_quote_tweet), 1, Len(calls))
    /\ PublishInvocations <= 1
    /\ Publishing =>
          /\ pc = (IF is_quote_tweet THEN "post_quote" ELSE "post_reply")
          /\ PublishInvocations = 1
          /\ response_text # <<>>
          /\ selected_tweet # NoTweet
    /\ lastCall # NoCall =>
          /\ PublishInvocations = 1
          /\ response_text # <<>>
          /\ IF lastCall.unit = 0
             THEN /\ lastCall.kind = (IF is_quote_tweet THEN "quote" ELSE "reply")
                  /\ lastCall.target = selected_tweet.tweet_id
                  /\ lastCall.text = response_text
             ELSE /\ is_quote_tweet
                  /\ lastCall.kind = "reply"
                  /\ lastCall.text = thread[lastCall.unit]

\* a cycle that ran every stage and published a quote with its thread
C25_Witness ==
    /\ calls = <<"fetch", "select", "enrich", "plan", "generate", "post_quote", "mark">>
    /\ is_quote_tweet
    /\ lastCall.unit > 0
    /\ lastCall.result = "ok"

\* tweet_info c carries identifier, text, author and metrics of post id
BuiltFrom(c, id) ==
    /\ c.tweet_id = id
    /\ c.text = id
    /\ c.author_id = id
    /\ c.engagement_metrics = id

\* the batch is held together with the response it was built from
BatchHeld == response_data # <<>>

\* the primary create call of the cycle targets the selected tweet_info's
\* tweet_id, and the pool holds exactly the fetched tweet_infos whose tweet_id
\* is not in the store
ResolvedIdUsed ==
    /\ (lastCall # NoCall /\ lastCall.unit = 0) =>
          lastCall.target = selected_tweet.tweet_id
    /\ (BatchHeld /\ selectAnswer # <<>>) =>
          unprocessed_tweets =
              SelectSeq(fetched_tweets, LAMBDA c : c.tweet_id \notin cycleStartStore)

====
